---- MODULE Spec2Model ----
(***************************************************************************)
(* Conway's Game of Life engine (gol.c, gol.h) and its driver (main.c).    *)
(*                                                                         *)
(* A struct gameoflife is a record [rows, cols, board]; board is an        *)
(* address (NULL or a block of the heap).  The heap is a function from the *)
(* live addresses to the block stored there, a sequence of cells; C index  *)
(* i of a block is element i + 1 of the sequence.                          *)
(***************************************************************************)
EXTENDS Integers, Sequences, FiniteSets, TLC

\* ------------------------------------------------------------ bounds ----
\* largest dimensions passed to gol_init by the lifecycle specification
MaxRows == 1
MaxCols == 1
\* largest dimensions of the grids the per-operation specifications draw
GridRows == 3
GridCols == 3
\* largest number of cells of those grids
GridCells == 9
\* number of addresses malloc/calloc can hand out
MaxAddr == 3
\* dimensions the driver passes to gol_init (ROWS, COLS of main.c, scaled)
ROWS == 2
COLS == 2

\* --------------------------------------------------------- constants ----
GOL_ERR_OK == 0
GOL_ERR_INIT == 1
GOL_ERR_NOMEM == 2
NULL == 0

Addrs == 1..MaxAddr
Grids == {"a", "b"}

\* memset(game, 0, sizeof(struct gameoflife))
Zero == [rows |-> 0, cols |-> 0, board |-> NULL]

\* gol_pos is short int: the value an int expression has once stored in one
ToShort(v) == ((v + 32768) % 65536) - 32768

\* bool used as an int (n += game->board[...])
BoolToInt(b) == IF b THEN 1 ELSE 0

\* all blocks of n cells
Blocks(n) == [1..n -> BOOLEAN]

\* what malloc and calloc can return: NULL (failure) or any address not in
\* use, a freed one or one never handed out
FreeAddrs(h) == Addrs \ DOMAIN h
MallocResults(h) == {NULL} \cup FreeAddrs(h)

\* the same once the allocator's bookkeeping has been overwritten (bad): the
\* free list can then hold a block that is in use, and malloc hand it out a
\* second time
MallocOutcomes(h, bad) == MallocResults(h) \cup (IF bad THEN DOMAIN h ELSE {})

\* h with block blk stored at the fresh address m
Store(h, m, blk) == [p \in (DOMAIN h) \cup {m} |-> IF p = m THEN blk ELSE h[p]]

\* h after free(p)
Release(h, p) == [q \in (DOMAIN h) \ {p} |-> h[q]]

\* game->board points to a live block of rows * cols cells
Owned(h, game) ==
    /\ game.board # NULL
    /\ game.board \in DOMAIN h
    /\ game.rows >= 1 /\ game.cols >= 1
    /\ Len(h[game.board]) = game.rows * game.cols

\* ------------------------------------------------------------ gol.c -----
\* x, y and cols are gol_pos (at most 32767) and every caller passes
\* 0 <= x < cols, 0 <= y < rows, so the int (y * cols) + x lies in 0..2^30
\* and its conversion to unsigned int changes nothing
gol_2dto1d(game, x, y) == (y * game.cols) + x

neighbors_self ==
    << <<-1, -1>>, <<-1, 0>>, <<-1, 1>>, <<0, -1>>, <<0, 0>>,
       <<0, 1>>, <<1, -1>>, <<1, 0>>, <<1, 1>> >>

neighbors ==
    << <<-1, -1>>, <<-1, 0>>, <<-1, 1>>, <<0, -1>>,
       <<0, 1>>, <<1, -1>>, <<1, 0>>, <<1, 1>> >>

\* the for loop of gol_countlive from neighbour i on; n is the count so far
\* and reads the board indices read so far
RECURSIVE countlive_loop(_, _, _, _, _, _, _)
countlive_loop(h, game, x, y, i, n, reads) ==
    IF i > Len(neighbors) THEN [n |-> n, reads |-> reads]
    ELSE LET nx == ToShort(x + neighbors[i][1])
             ny == ToShort(y + neighbors[i][2])
         IN  IF nx < 0 \/ nx >= game.cols \/ ny < 0 \/ ny >= game.rows
             THEN countlive_loop(h, game, x, y, i + 1, n, reads)
             ELSE LET pos == gol_2dto1d(game, nx, ny)
                  IN  countlive_loop(h, game, x, y, i + 1,
                                     n + BoolToInt(h[game.board][pos + 1]),
                                     reads \cup {pos})

gol_countlive(h, game, x, y) ==
    IF game.board = NULL
    THEN [ret |-> GOL_ERR_INIT, count |-> -1, reads |-> {}]
    ELSE LET r == countlive_loop(h, game, x, y, 1, 0, {})
         IN  [ret |-> GOL_ERR_OK, count |-> r.n, reads |-> r.reads]

\* games: the structs; heap: the live blocks; last: the last call;
\* released[g]: g was last written by gol_free; dupOf[d]: the grid d is a
\* successful copy of; halted: the process died; corrupt: a store through a
\* pointer that owns nothing, or a second free of a block, has overwritten
\* the allocator's bookkeeping; junk: the live blocks holding bytes copied
\* from freed memory (their cells in heap stand for indeterminate bytes);
\* pc, out: the driver's position and what it printed last
VARIABLES games, heap, last, released, dupOf, halted, corrupt, junk, pc, out
vars == <<games, heap, last, released, dupOf, halted, corrupt, junk, pc, out>>

\* the record of the last call: the operation, its arguments and what it
\* returned
NoCall ==
    [op |-> "none", g |-> "a", src |-> "a", ret |-> GOL_ERR_OK,
     x |-> 0, y |-> 0, count |-> 0, reads |-> {},
     freed |-> <<>>, nullRead |-> FALSE, again |-> FALSE,
     chars |-> <<>>, buf |-> <<>>, bufLen |-> 0, maxWrite |-> -1]

Call(op, g) ==
    [NoCall EXCEPT !.op = op, !.g = g]

\* ---- gol_init (gol.c:52-65); m is what calloc returns -------------------
gol_init(h, game, rows, cols, m) ==
    LET sz == rows * cols
    IN  IF m = NULL
        THEN [ret |-> GOL_ERR_NOMEM, game |-> game, heap |-> h]
        ELSE [ret |-> GOL_ERR_OK,
              game |-> [rows |-> rows, cols |-> cols, board |-> m],
              heap |-> Store(h, m, [i \in 1..sz |-> FALSE])]

\* ---- gol_free (gol.c:70-78); freed lists the calls of free() -------------
gol_free_keep(h, game) ==
    [ret |-> GOL_ERR_OK, game |-> game,
     heap |-> IF game.board # NULL THEN Release(h, game.board) ELSE h,
     freed |-> IF game.board # NULL THEN <<game.board>> ELSE <<>>]

gol_free(h, game) ==
    [ret |-> GOL_ERR_OK, game |-> Zero,
     heap |-> IF game.board # NULL THEN Release(h, game.board) ELSE h,
     freed |-> IF game.board # NULL THEN <<game.board>> ELSE <<>>]

\* ---- gol_copy (gol.c:83-98); m is what malloc returns --------------------
gol_copy_shallow(h, src, m) ==
    [ret |-> GOL_ERR_OK, dest |-> src, heap |-> h]

gol_copy(h, src, m) ==
    IF src.board # NULL
    THEN LET board_len == src.cols * src.rows
         IN  IF m = NULL
             THEN [ret |-> GOL_ERR_NOMEM, dest |-> src, heap |-> h]
             ELSE [ret |-> GOL_ERR_OK,
                   dest |-> [src EXCEPT !.board = m],
                   heap |-> Store(h, m,
                                  [i \in 1..board_len |-> h[src.board][i]])]
    ELSE [ret |-> GOL_ERR_OK, dest |-> src, heap |-> h]

\* ---- gol_populate (gol.c:102-114); rnd[pos + 1] is rand() % 2 at pos -----
RECURSIVE populate_loop(_, _, _, _, _)
populate_loop(h, game, rnd, y, x) ==
    IF y >= game.rows THEN h
    ELSE IF x >= game.cols THEN populate_loop(h, game, rnd, y + 1, 0)
    ELSE LET pos == gol_2dto1d(game, x, y)
         IN  populate_loop([h EXCEPT ![game.board][pos + 1] = rnd[pos + 1]],
                           game, rnd, y, x + 1)

gol_populate(h, game, rnd) ==
    IF game.board = NULL
    THEN [ret |-> GOL_ERR_INIT, heap |-> h]
    ELSE [ret |-> GOL_ERR_OK, heap |-> populate_loop(h, game, rnd, 0, 0)]

\* ---- gol_cellnext (gol.c:119-128) ----------------------------------------
gol_cellnext(is_alive, live_neighbors) ==
    LET survive == is_alive /\ live_neighbors >= 2 /\ live_neighbors <= 3
        reproduce == ~is_alive /\ live_neighbors = 3
    IN  survive \/ reproduce

\* ---- gol_tick (gol.c:132-160) --------------------------------------------
\* the body of the inner loop (gol.c:145-154).  nullRead: line 146 read
\* game->board[pos] through a NULL board.
tick_cell_inplace(h, game, copy, x, y) ==
    LET pos == gol_2dto1d(game, x, y)
        is_alive == h[game.board][pos + 1]
        c == gol_countlive(h, game, x, y)
    IN  IF c.ret # GOL_ERR_OK
        THEN [ret |-> c.ret, heap |-> h, nullRead |-> game.board = NULL]
        ELSE [ret |-> GOL_ERR_OK,
              heap |-> [h EXCEPT ![game.board][pos + 1] =
                                     gol_cellnext(is_alive, c.count)],
              nullRead |-> game.board = NULL]

tick_cell(h, game, copy, x, y) ==
    LET pos == gol_2dto1d(game, x, y)
        is_alive == h[game.board][pos + 1]
        c == gol_countlive(h, copy, x, y)
    IN  IF c.ret # GOL_ERR_OK
        THEN [ret |-> c.ret, heap |-> h, nullRead |-> game.board = NULL]
        ELSE [ret |-> GOL_ERR_OK,
              heap |-> [h EXCEPT ![game.board][pos + 1] =
                                     gol_cellnext(is_alive, c.count)],
              nullRead |-> game.board = NULL]

\* the two for loops (gol.c:142-156) from position (x, y) on
RECURSIVE tick_loop(_, _, _, _, _)
tick_loop(h, game, copy, y, x) ==
    IF y >= game.rows THEN [ret |-> GOL_ERR_OK, heap |-> h, nullRead |-> FALSE]
    ELSE IF x >= game.cols THEN tick_loop(h, game, copy, y + 1, 0)
    ELSE LET r == tick_cell(h, game, copy, x, y)
         IN  IF r.ret # GOL_ERR_OK THEN r
             ELSE tick_loop(r.heap, game, copy, y, x + 1)

gol_tick_leak(h, game, m) ==
    LET c == gol_copy(h, game, m)
    IN  IF c.ret # GOL_ERR_OK
        THEN [ret |-> c.ret, heap |-> c.heap, nullRead |-> FALSE,
              freed |-> <<>>]
        ELSE LET l == tick_loop(c.heap, game, c.dest, 0, 0)
             IN  [ret |-> l.ret, heap |-> l.heap,
                  nullRead |-> l.nullRead, freed |-> <<>>]

gol_tick_drop(h, game, m) ==
    LET c == gol_copy(h, game, m)
    IN  IF c.ret # GOL_ERR_OK
        THEN LET f == gol_free(c.heap, game)
             IN  [ret |-> c.ret, heap |-> f.heap, nullRead |-> FALSE,
                  freed |-> f.freed]
        ELSE LET l == tick_loop(c.heap, game, c.dest, 0, 0)
             IN  IF l.ret # GOL_ERR_OK
                 THEN [ret |-> l.ret, heap |-> l.heap,
                       nullRead |-> l.nullRead, freed |-> <<>>]
                 ELSE LET f == gol_free(l.heap, c.dest)
                      IN  [ret |-> GOL_ERR_OK, heap |-> f.heap,
                           nullRead |-> FALSE, freed |-> f.freed]

gol_tick(h, game, m) ==
    LET c == gol_copy(h, game, m)
    IN  IF c.ret # GOL_ERR_OK
        THEN [ret |-> c.ret, heap |-> c.heap, nullRead |-> FALSE,
              freed |-> <<>>]
        ELSE LET l == tick_loop(c.heap, game, c.dest, 0, 0)
             IN  IF l.ret # GOL_ERR_OK
                 THEN [ret |-> l.ret, heap |-> l.heap,
                       nullRead |-> l.nullRead, freed |-> <<>>]
                 ELSE LET f == gol_free(l.heap, c.dest)
                      IN  [ret |-> GOL_ERR_OK, heap |-> f.heap,
                           nullRead |-> FALSE, freed |-> f.freed]

\* ---- gol_tostring (gol.c:166-201) ----------------------------------------
\* characters are one-character strings; NUL is '\0' and Indet the value of
\* a char of malloc'd memory nothing was stored in
NUL == "NUL"
LF == "\n"
Indet == "?"
NoSrc == <<>>
Max(a, b) == IF a >= b THEN a ELSE b

\* str[i++] = c on s = [buf, i, maxWrite]; a store past the end of the
\* buffer leaves the buffer alone and shows in maxWrite
put(s, c) ==
    [buf |-> IF s.i + 1 <= Len(s.buf) THEN [s.buf EXCEPT ![s.i + 1] = c]
             ELSE s.buf,
     i |-> s.i + 1,
     maxWrite |-> Max(s.maxWrite, s.i)]

\* the inner for loop (gol.c:189-194) from column x on
RECURSIVE tostring_cols(_, _, _, _, _, _, _)
tostring_cols(h, game, on_char, off_char, s, y, x) ==
    IF x >= game.cols THEN s
    ELSE LET pos == gol_2dto1d(game, x, y)
         IN  tostring_cols(h, game, on_char, off_char,
                           IF h[game.board][pos + 1] = TRUE
                           THEN put(s, on_char) ELSE put(s, off_char),
                           y, x + 1)

\* the outer for loop (gol.c:187-195) from row y on
RECURSIVE tostring_rows_trailing(_, _, _, _, _, _)
tostring_rows_trailing(h, game, on_char, off_char, s, y) ==
    IF y >= game.rows THEN s
    ELSE tostring_rows_trailing(h, game, on_char, off_char,
             put(tostring_cols(h, game, on_char, off_char, s, y, 0), LF),
             y + 1)

RECURSIVE tostring_rows(_, _, _, _, _, _)
tostring_rows(h, game, on_char, off_char, s, y) ==
    IF y >= game.rows THEN s
    ELSE LET s1 == IF y # 0 THEN put(s, LF) ELSE s
         IN  tostring_rows(h, game, on_char, off_char,
                           tostring_cols(h, game, on_char, off_char, s1, y, 0),
                           y + 1)

\* src is NoSrc (a NULL pointer) or a sequence of characters; ok tells
\* whether malloc succeeds
gol_tostring(h, game, src, ok) ==
    IF game.board = NULL
    THEN [ret |-> GOL_ERR_INIT, buf |-> <<>>, bufLen |-> 0, maxWrite |-> -1]
    ELSE LET len == (game.cols + 1) * game.rows
         IN  IF ~ok
             THEN [ret |-> GOL_ERR_NOMEM, buf |-> <<>>, bufLen |-> 0,
                   maxWrite |-> -1]
             ELSE LET on_char == IF src = NoSrc THEN "X" ELSE src[1]
                      off_char == IF src = NoSrc THEN "O" ELSE src[2]
                      s0 == [buf |-> [k \in 1..(len + 1) |-> Indet],
                             i |-> 0, maxWrite |-> -1]
                      s1 == tostring_rows(h, game, on_char, off_char, s0, 0)
                      s2 == put(s1, NUL)
                  IN  [ret |-> GOL_ERR_OK, buf |-> s2.buf,
                       bufLen |-> len + 1, maxWrite |-> s2.maxWrite]

\* the text a char buffer holds: the characters before the first '\0'
RECURSIVE CStrFrom(_, _)
CStrFrom(buf, k) ==
    IF k > Len(buf) \/ buf[k] = NUL THEN <<>>
    ELSE <<buf[k]>> \o CStrFrom(buf, k + 1)
CStr(buf) == CStrFrom(buf, 1)

\* ======================= the engine under any sequence of calls ==========
\* what a call that did not return (the process died in it) leaves in last.ret
CRASH == -1

\* a struct gameoflife without storage, as its owner declares it
UninitStructs ==
    {[rows |-> r, cols |-> c, board |-> NULL] : r \in 0..MaxRows, c \in 0..MaxCols}

Init ==
    /\ \E s \in UninitStructs : games = [g \in Grids |-> IF g = "a" THEN s ELSE Zero]
    /\ heap = <<>>
    /\ last = NoCall
    /\ released = [g \in Grids |-> FALSE]
    /\ dupOf = [g \in Grids |-> "none"]
    /\ halted = FALSE
    /\ corrupt = FALSE
    /\ junk = {}
    /\ pc = "none"
    /\ out = <<>>

\* dupOf once struct g has been written by gol_init or as dest of gol_copy:
\* g is no duplicate any more, and no grid is a duplicate of what g was
Overwrite(g) ==
    [d \in Grids |-> IF d = g \/ dupOf[d] = g THEN "none" ELSE dupOf[d]]

\* the process dies inside the call op on g (dest g and source src for a copy)
Dies(op, g, src) ==
    /\ halted' = TRUE
    /\ last' = [Call(op, g) EXCEPT !.src = src, !.ret = CRASH]
    /\ UNCHANGED <<games, heap, released, dupOf, corrupt, junk>>

\* gol_init(&g, rows, cols).  With the allocator's bookkeeping overwritten
\* calloc may abort.
Initialize(g) ==
    /\ ~halted
    /\ \/ /\ \E rows \in 1..MaxRows, cols \in 1..MaxCols,
                  m \in MallocOutcomes(heap, corrupt) :
               LET r == gol_init(heap, games[g], rows, cols, m)
               IN  /\ games' = [games EXCEPT ![g] = r.game]
                   /\ heap' = r.heap
                   /\ last' = [Call("init", g) EXCEPT !.ret = r.ret]
                   /\ released' = IF r.ret = GOL_ERR_OK
                                  THEN [released EXCEPT ![g] = FALSE]
                                  ELSE released
                   /\ dupOf' = IF r.ret = GOL_ERR_OK THEN Overwrite(g) ELSE dupOf
                   /\ junk' = junk \ {m}
          /\ UNCHANGED <<halted, corrupt>>
       \/ corrupt /\ Dies("init", g, "a")
    /\ UNCHANGED <<pc, out>>

\* gol_free(&g), the board NULL or a live block
FreeGrid(g) ==
    /\ ~halted
    /\ games[g].board = NULL \/ games[g].board \in DOMAIN heap
    /\ \/ /\ LET r == gol_free(heap, games[g])
             IN  /\ games' = [games EXCEPT ![g] = r.game]
                 /\ heap' = r.heap
                 /\ last' = [Call("free", g) EXCEPT !.ret = r.ret,
                                 !.freed = r.freed, !.again = released[g]]
          /\ released' = [released EXCEPT ![g] = TRUE]
          /\ junk' = junk \ {games[g].board}
          /\ UNCHANGED <<dupOf, halted, corrupt>>
       \/ corrupt /\ games[g].board # NULL /\ Dies("free", g, "a")
    /\ UNCHANGED <<pc, out>>

\* gol_copy(&dest, &src), src without storage or owning its block.  The
\* bytes of a junk block are copied as they are.
Duplicate(dest, src) ==
    /\ ~halted
    /\ dest # src
    /\ games[src].board = NULL \/ Owned(heap, games[src])
    /\ \/ /\ \E m \in MallocOutcomes(heap, corrupt) :
               LET r == gol_copy(heap, games[src], m)
               IN  /\ games' = [games EXCEPT ![dest] = r.dest]
                   /\ heap' = r.heap
                   /\ last' = [Call("copy", dest) EXCEPT !.src = src,
                                                         !.ret = r.ret]
                   /\ dupOf' = [Overwrite(dest) EXCEPT ![dest] =
                                    IF r.ret = GOL_ERR_OK
                                       /\ games[src].board # NULL
                                    THEN src ELSE "none"]
                   /\ junk' = IF games[src].board = NULL \/ m = NULL THEN junk
                              ELSE IF games[src].board \in junk
                              THEN junk \cup {m} ELSE junk \ {m}
          /\ released' = [released EXCEPT ![dest] = FALSE]
          /\ UNCHANGED <<halted, corrupt>>
       \/ corrupt /\ games[src].board # NULL /\ Dies("copy", dest, src)
    /\ UNCHANGED <<pc, out>>

\* gol_populate(&g), g without storage or owning its block; every cell of
\* the block is stored to and none is read
Populate(g) ==
    /\ ~halted
    /\ games[g].board = NULL \/ Owned(heap, games[g])
    /\ \E rnd \in Blocks(games[g].rows * games[g].cols) :
         LET r == gol_populate(heap, games[g], rnd)
         IN  /\ heap' = r.heap
             /\ last' = [Call("populate", g) EXCEPT !.ret = r.ret]
    /\ junk' = junk \ {games[g].board}
    /\ UNCHANGED <<games, released, dupOf, halted, corrupt, pc, out>>

\* gol_tick(&g), g without storage or owning a block of cells.  A read
\* through a NULL board (gol.c:146) is undefined: the process dies there, or
\* the build has moved the load after the check of gol.c:151 and the call
\* returns.  With the allocator's bookkeeping overwritten malloc may abort.
Tick(g) ==
    /\ ~halted
    /\ \/ games[g].board = NULL
       \/ Owned(heap, games[g]) /\ games[g].board \notin junk
    /\ \E m \in MallocOutcomes(heap, corrupt), crash \in BOOLEAN :
         LET r == gol_tick(heap, games[g], m)
         IN  /\ crash => (r.nullRead \/ (corrupt /\ games[g].board # NULL))
             /\ halted' = crash
             /\ heap' = IF crash THEN heap ELSE r.heap
             /\ last' = [Call("tick", g) EXCEPT
                             !.ret = IF crash THEN CRASH ELSE r.ret,
                             !.freed = IF crash THEN <<>> ELSE r.freed,
                             !.nullRead = r.nullRead]
    /\ junk' = junk \cap DOMAIN heap'
    /\ UNCHANGED <<games, released, dupOf, corrupt, pc, out>>

\* gol_tick(&g) on a block of junk bytes: the snapshot is taken, the cells
\* read as bool are indeterminate, every cell is stored to with a value of
\* gol_cellnext, and the snapshot is freed
TickIndeterminate(g) ==
    /\ ~halted
    /\ Owned(heap, games[g]) /\ games[g].board \in junk
    /\ \/ /\ \E m \in MallocOutcomes(heap, corrupt) :
               IF m = NULL
               THEN /\ last' = [Call("tick", g) EXCEPT !.ret = GOL_ERR_NOMEM]
                    /\ UNCHANGED <<heap, junk>>
               ELSE /\ last' = [Call("tick", g) EXCEPT !.freed = <<m>>]
                    /\ \E blk \in Blocks(Len(heap[games[g].board])) :
                         heap' = Release([Store(heap, m, heap[games[g].board])
                                             EXCEPT ![games[g].board] = blk], m)
                    /\ junk' = junk \ {games[g].board, m}
          /\ UNCHANGED <<games, released, dupOf, halted, corrupt>>
       \/ corrupt /\ Dies("tick", g, "a")
    /\ UNCHANGED <<pc, out>>

\* what stores through a pointer that owns nothing can do to the live
\* blocks: nothing, or new contents for one of them
Corrupted(h) ==
    {h} \cup UNION {{[h EXCEPT ![p] = blk] : blk \in Blocks(Len(h[p]))} :
                       p \in DOMAIN h}

\* A call on a grid whose board is neither NULL nor a block of rows * cols
\* cells: the block was freed through another struct holding the same
\* pointer (and the address perhaps handed out again for another size).
\*   gol_free: free() of a block not live.  The allocator aborts, or takes
\*     the block a second time and its bookkeeping is damaged.
\*   gol_populate: the stores of gol.c:110 land in freed memory, where the
\*     allocator keeps its bookkeeping, or in another block.
\*   gol_tick: with malloc failing gol_copy returns before any access to the
\*     board (gol.c:92).  Otherwise the snapshot is read from freed memory,
\*     the stores of gol.c:154 land there, and the snapshot is freed.
\*   gol_copy from g: with malloc failing dest gets g's pointer and no byte
\*     of the board is read.  Otherwise the new block, which can be the very
\*     block g's board dangles into, is filled with what the freed memory
\*     holds.
\* Each access to freed memory can also end the process.
UseAfterFree(g) ==
    /\ ~halted
    /\ games[g].board # NULL /\ ~Owned(heap, games[g])
    /\ \/ \E op \in {"free", "populate", "tick"} :
            /\ op = "free" => games[g].board \notin DOMAIN heap
            /\ Dies(op, g, "a")
       \/ \E dest \in Grids \ {g} : Dies("copy", dest, g)
       \/ /\ games[g].board \notin DOMAIN heap
          /\ games' = [games EXCEPT ![g] = Zero]
          /\ released' = [released EXCEPT ![g] = TRUE]
          /\ last' = [Call("free", g) EXCEPT !.freed = <<games[g].board>>,
                                             !.again = released[g]]
          /\ corrupt' = TRUE
          /\ UNCHANGED <<heap, dupOf, halted, junk>>
       \/ /\ heap' \in Corrupted(heap)
          /\ last' = Call("populate", g)
          /\ corrupt' = TRUE
          /\ UNCHANGED <<games, released, dupOf, halted, junk>>
       \/ /\ last' = [Call("tick", g) EXCEPT !.ret = GOL_ERR_NOMEM]
          /\ UNCHANGED <<games, heap, released, dupOf, halted, corrupt, junk>>
       \/ /\ \E m \in MallocOutcomes(heap, corrupt) \ {NULL} :
               last' = [Call("tick", g) EXCEPT !.freed = <<m>>]
          /\ heap' \in Corrupted(Release(heap, last'.freed[1]))
          /\ junk' = junk \ {last'.freed[1]}
          /\ corrupt' = TRUE
          /\ UNCHANGED <<games, released, dupOf, halted>>
       \/ \E dest \in Grids \ {g} :
            /\ \E m \in MallocOutcomes(heap, corrupt) :
                 IF m = NULL
                 THEN /\ games' = [games EXCEPT ![dest] = games[g]]
                      /\ last' = [Call("copy", dest) EXCEPT
                                      !.src = g, !.ret = GOL_ERR_NOMEM]
                      /\ UNCHANGED <<heap, junk>>
                 ELSE /\ games' = [games EXCEPT ![dest] =
                                      [games[g] EXCEPT !.board = m]]
                      /\ heap' = Store(heap, m,
                                       [i \in 1..(games[g].rows * games[g].cols)
                                           |-> FALSE])
                      /\ junk' = junk \cup {m}
                      /\ last' = [Call("copy", dest) EXCEPT !.src = g]
            /\ released' = [released EXCEPT ![dest] = FALSE]
            /\ dupOf' = Overwrite(dest)
            /\ UNCHANGED <<halted, corrupt>>
    /\ UNCHANGED <<pc, out>>

Next ==
    \/ \E g \in Grids : Initialize(g)
    \/ \E g \in Grids : FreeGrid(g)
    \/ \E dest \in Grids, src \in Grids : Duplicate(dest, src)
    \/ \E g \in Grids : Populate(g)
    \/ \E g \in Grids : Tick(g)
    \/ \E g \in Grids : TickIndeterminate(g)
    \/ \E g \in Grids : UseAfterFree(g)

Spec == Init /\ [][Next]_vars

\* ======================= one operation on any grid ========================
\* grid "a" initialized with any dimensions and any contents
InitGrid ==
    /\ \E r \in 1..GridRows, c \in 1..GridCols :
         /\ r * c <= GridCells
         /\ games = [g \in Grids |-> IF g = "a"
                                     THEN [rows |-> r, cols |-> c, board |-> 1]
                                     ELSE Zero]
         /\ \E blk \in Blocks(r * c) : heap = <<blk>>
    /\ last = NoCall
    /\ released = [g \in Grids |-> FALSE]
    /\ dupOf = [g \in Grids |-> "none"]
    /\ halted = FALSE
    /\ corrupt = FALSE
    /\ junk = {}
    /\ pc = "none"
    /\ out = <<>>

NextTick == Tick("a")
SpecTick == InitGrid /\ [][NextTick]_vars

\* gol_countlive(&g, x, y, &count) at a position of the grid
CountLive(g) ==
    /\ ~halted
    /\ Owned(heap, games[g])
    /\ \E x \in 0..(games[g].cols - 1), y \in 0..(games[g].rows - 1) :
         LET r == gol_countlive(heap, games[g], x, y)
         IN  last' = [Call("count", g) EXCEPT !.ret = r.ret, !.x = x, !.y = y,
                          !.count = r.count, !.reads = r.reads]
    /\ UNCHANGED <<games, heap, released, dupOf, halted, corrupt, junk, pc, out>>

NextCount == CountLive("a")
SpecCount == InitGrid /\ [][NextCount]_vars

\* the character arguments gol_tostring is called with
CharPairs == {<<"#", ".">>, <<"X", " ">>}

\* gol_tostring(&g, &dest, src)
Render(g) ==
    /\ ~halted
    /\ games[g].board = NULL \/ Owned(heap, games[g])
    /\ \E src \in {NoSrc} \cup CharPairs, ok \in BOOLEAN :
         LET r == gol_tostring(heap, games[g], src, ok)
         IN  last' = [Call("render", g) EXCEPT !.ret = r.ret, !.chars = src,
                          !.buf = r.buf, !.bufLen = r.bufLen,
                          !.maxWrite = r.maxWrite]
    /\ UNCHANGED <<games, heap, released, dupOf, halted, corrupt, junk, pc, out>>

NextRender == Render("a")
SpecRender == InitGrid /\ [][NextRender]_vars

\* ======================= the driver (main.c:44-73) ========================
InitMain ==
    /\ games = [g \in Grids |-> Zero]
    /\ heap = <<>>
    /\ last = NoCall
    /\ released = [g \in Grids |-> FALSE]
    /\ dupOf = [g \in Grids |-> "none"]
    /\ halted = FALSE
    /\ corrupt = FALSE
    /\ junk = {}
    /\ pc = "init"
    /\ out = <<>>

\* main.c:50
DrvInit ==
    /\ pc = "init"
    /\ \E m \in MallocResults(heap) :
         LET r == gol_init(heap, games["a"], ROWS, COLS, m)
         IN  /\ games' = [games EXCEPT !["a"] = r.game]
             /\ heap' = r.heap
             /\ last' = [Call("init", "a") EXCEPT !.ret = r.ret]
             /\ pc' = IF r.ret # GOL_ERR_OK THEN "exit_failure" ELSE "populate"
    /\ UNCHANGED <<released, dupOf, halted, corrupt, junk, out>>

\* main.c:53
DrvPopulate ==
    /\ pc = "populate"
    /\ \E rnd \in Blocks(games["a"].rows * games["a"].cols) :
         LET r == gol_populate(heap, games["a"], rnd)
         IN  /\ heap' = r.heap
             /\ last' = [Call("populate", "a") EXCEPT !.ret = r.ret]
             /\ pc' = IF r.ret # GOL_ERR_OK THEN "exit_failure" ELSE "render"
    /\ UNCHANGED <<games, released, dupOf, halted, corrupt, junk, out>>

\* main.c:58-60: gol_tostring, printf, free(game_str)
DrvRender ==
    /\ pc = "render"
    /\ \E ok \in BOOLEAN :
         LET r == gol_tostring(heap, games["a"], <<"X", " ">>, ok)
         IN  /\ last' = [Call("render", "a") EXCEPT !.ret = r.ret]
             /\ IF r.ret # GOL_ERR_OK
                THEN pc' = "exit_failure" /\ out' = out
                ELSE pc' = "wait" /\ out' = CStr(r.buf)
    /\ UNCHANGED <<games, heap, released, dupOf, halted, corrupt, junk>>

\* main.c:63-64: wait_ms(100) returns 0, or not and the loop is left
DrvWait ==
    /\ pc = "wait"
    /\ \E w \in {0, -1} : pc' = IF w # 0 THEN "release" ELSE "tick"
    /\ UNCHANGED <<games, heap, last, released, dupOf, halted, corrupt, junk, out>>

\* main.c:66-67: gol_tick, its status dropped, then CLEAR_CONSOLE
DrvTick ==
    /\ pc = "tick"
    /\ \E m \in MallocResults(heap) :
         LET r == gol_tick(heap, games["a"], m)
         IN  /\ heap' = r.heap
             /\ last' = [Call("tick", "a") EXCEPT !.ret = r.ret,
                             !.freed = r.freed]
    /\ pc' = "render"
    /\ out' = <<>>
    /\ UNCHANGED <<games, released, dupOf, halted, corrupt, junk>>

\* main.c:70-72
DrvRelease ==
    /\ pc = "release"
    /\ LET r == gol_free(heap, games["a"])
       IN  /\ games' = [games EXCEPT !["a"] = r.game]
           /\ heap' = r.heap
           /\ last' = [Call("free", "a") EXCEPT !.ret = r.ret,
                           !.freed = r.freed]
    /\ pc' = "exit_success"
    /\ UNCHANGED <<released, dupOf, halted, corrupt, junk, out>>

NextMain ==
    \/ DrvInit
    \/ DrvPopulate
    \/ DrvRender
    \/ DrvWait
    \/ DrvTick
    \/ DrvRelease

SpecMain == InitMain /\ [][NextMain]_vars

\* ================================ claims ==================================
\* g is an initialized grid: it owns a live block of rows * cols cells, every
\* one of them a bool, and no call made so far has stored through a pointer
\* that owned nothing or freed a block twice
Initialized(g) ==
    /\ Owned(heap, games[g])
    /\ games[g].board \notin junk
    /\ ~corrupt

\* the Moore neighbours of (x, y) that lie inside a rows x cols grid
InBounds(rows, cols, x, y) ==
    {p \in ((x - 1)..(x + 1)) \X ((y - 1)..(y + 1)) :
        /\ p # <<x, y>>
        /\ 0 <= p[1] /\ p[1] < cols
        /\ 0 <= p[2] /\ p[2] < rows}

\* the next generation of block blk of a rows x cols grid, by Conway's rule
ConwayNext(rows, cols, blk) ==
    [k \in 1..(rows * cols) |->
        LET x == (k - 1) % cols
            y == (k - 1) \div cols
            n == Cardinality({p \in InBounds(rows, cols, x, y) :
                                 blk[p[2] * cols + p[1] + 1]})
        IN  IF blk[k] THEN n \in {2, 3} ELSE n = 3]

\* C1: after a successful gol_tick on an initialized grid every cell is
\* Conway's rule applied to the generation the call started from, cells
\* outside the grid counting as dead
C1_TickIsConway ==
    [][\A g \in Grids :
          (/\ last'.op = "tick" /\ last'.g = g /\ last'.ret = GOL_ERR_OK
           /\ Initialized(g))
          => /\ games'[g] = games[g]
             /\ Initialized(g)'
             /\ heap'[games[g].board] =
                    ConwayNext(games[g].rows, games[g].cols,
                               heap[games[g].board])]_vars

\* a 3 x 3 grid holding the vertical blinker after a successful tick
C1_Witness ==
    /\ last.op = "tick" /\ last.g = "a" /\ last.ret = GOL_ERR_OK
    /\ games["a"] = [rows |-> 3, cols |-> 3, board |-> 1]
    /\ heap[1] = <<FALSE, TRUE, FALSE, FALSE, TRUE, FALSE, FALSE, TRUE, FALSE>>

\* C2: gol_tick on a grid whose board is NULL returns GOL_ERR_INIT, whatever
\* rows and cols are, and reads no cell through the NULL board
C2_TickWithoutStorageFails ==
    \A g \in Grids :
        (last.op = "tick" /\ last.g = g /\ games[g].board = NULL)
        => (last.ret = GOL_ERR_INIT /\ ~last.nullRead)

\* C3: no two grids hold the same board pointer
C3_NoSharedStorage ==
    \A g1 \in Grids, g2 \in Grids :
        (g1 # g2 /\ games[g1].board # NULL)
        => games[g1].board # games[g2].board

\* C4: a successful gol_copy of an initialized src gives dest the
\* dimensions of src and a block of its own equal to src's; populate, tick
\* and free on the duplicate, made while no call has yet damaged the
\* allocator, leave src's struct and cells as they were; a
\* src without storage is copied with success, dest having no storage and
\* src's rows and cols
C4_CopyIsIndependent ==
    [][/\ \A d \in Grids, s \in Grids :
            (last'.op = "copy" /\ last'.g = d /\ last'.src = s /\ d # s)
            => /\ (Initialized(s) /\ last'.ret = GOL_ERR_OK)
                  => /\ games'[d].rows = games[s].rows
                     /\ games'[d].cols = games[s].cols
                     /\ games'[d].board # games[s].board
                     /\ games'[d].board \notin DOMAIN heap
                     /\ Initialized(d)'
                     /\ heap'[games'[d].board] = heap[games[s].board]
                     /\ games'[s] = games[s]
                     /\ heap'[games[s].board] = heap[games[s].board]
               /\ games[s].board = NULL
                  => /\ last'.ret = GOL_ERR_OK
                     /\ games'[d] = games[s]
                     /\ heap' = heap
       /\ \A d \in Grids, s \in Grids :
            (/\ last'.op \in {"populate", "tick", "free"} /\ last'.g = d
             /\ dupOf[d] = s /\ ~corrupt)
            => /\ games'[s] = games[s]
               /\ games[s].board \in DOMAIN heap
                  => /\ games[s].board \in DOMAIN heap'
                     /\ heap'[games[s].board] = heap[games[s].board]]_vars

\* the duplicate "b" of "a" was populated and now differs from "a"
C4_Witness ==
    /\ last.op = "populate" /\ last.g = "b" /\ last.ret = GOL_ERR_OK
    /\ dupOf["b"] = "a"
    /\ Initialized("a") /\ Initialized("b")
    /\ games["a"].rows = games["b"].rows /\ games["a"].cols = games["b"].cols
    /\ heap[games["a"].board] # heap[games["b"].board]

\* C5: gol_free on an initialized grid calls free once, on its board, and
\* leaves board NULL and rows = cols = 0; gol_free again on the same grid,
\* not initialized in between, calls free on nothing, returns GOL_ERR_OK and
\* leaves the grid and the heap as they were
C5_FreeOnceThenNoop ==
    [][\A g \in Grids :
          (last'.op = "free" /\ last'.g = g)
          => /\ Initialized(g)
                => /\ last'.ret = GOL_ERR_OK
                   /\ last'.freed = <<games[g].board>>
                   /\ DOMAIN heap' = (DOMAIN heap) \ {games[g].board}
                   /\ games'[g] = Zero
             /\ released[g]
                => /\ last'.ret = GOL_ERR_OK
                   /\ last'.freed = <<>>
                   /\ games[g] = Zero /\ games'[g] = Zero
                   /\ heap' = heap]_vars

\* the second gol_free in a row of a grid that owned a block
C5_Witness ==
    /\ last.op = "free" /\ last.g = "a" /\ last.again
    /\ last.ret = GOL_ERR_OK /\ last.freed = <<>>
    /\ games["a"] = Zero

\* C6: whatever gol_tick returns (GOL_ERR_OK, GOL_ERR_INIT, GOL_ERR_NOMEM)
\* on a grid without storage or an initialized grid, the live allocations
\* after the call are those before it, and the grid's own board is not among
\* the blocks the call freed
C6_TickLeaksNothing ==
    [][\A g \in Grids :
          (/\ last'.op = "tick" /\ last'.g = g
           /\ last'.ret \in {GOL_ERR_OK, GOL_ERR_INIT, GOL_ERR_NOMEM}
           /\ (games[g].board = NULL \/ Initialized(g)))
          => /\ DOMAIN heap' = DOMAIN heap
             /\ \A k \in 1..Len(last'.freed) :
                   last'.freed[k] # games[g].board]_vars

\* a successful tick that allocated a snapshot and freed it
C6_Witness ==
    /\ last.op = "tick" /\ last.ret = GOL_ERR_OK
    /\ Initialized(last.g)
    /\ Len(last.freed) = 1
    /\ last.freed[1] \notin DOMAIN heap

\* the characters gol_tostring uses for src
OnChar(src) == IF src = NoSrc THEN "X" ELSE src[1]
OffChar(src) == IF src = NoSrc THEN "O" ELSE src[2]

\* C7: gol_tostring of an initialized R x C grid gives a text of
\* R*C + (R - 1) characters before the terminator: R lines of C characters,
\* one line break between two lines and none at either end, the character
\* of line y, column x telling whether cell (x, y) is alive; every store
\* stays inside the buffer of (C + 1) * R + 1 characters; without src the
\* characters are 'X' and 'O'
C7_RenderLayout ==
    \A g \in Grids :
        (last.op = "render" /\ last.g = g /\ last.ret = GOL_ERR_OK)
        => LET R == games[g].rows
               C == games[g].cols
               text == CStr(last.buf)
           IN  /\ Len(text) = R * C + (R - 1)
               /\ \A y \in 0..(R - 1), x \in 0..(C - 1) :
                     text[y * (C + 1) + x + 1] =
                         IF heap[games[g].board][y * C + x + 1]
                         THEN OnChar(last.chars) ELSE OffChar(last.chars)
               /\ \A k \in 1..Len(text) :
                     (text[k] = LF) <=> (k % (C + 1) = 0)
               /\ text[1] # LF /\ text[Len(text)] # LF
               /\ last.bufLen = (C + 1) * R + 1
               /\ Len(last.buf) = last.bufLen
               /\ 0 <= last.maxWrite /\ last.maxWrite < last.bufLen
               /\ last.chars = NoSrc
                  => \A k \in 1..Len(text) : text[k] \in {"X", "O", LF}

\* the 2 x 3 grid of cells 1 0 1 / 0 1 0 rendered with ('#', '.')
C7_Witness ==
    /\ last.op = "render" /\ last.ret = GOL_ERR_OK
    /\ last.chars = <<"#", ".">>
    /\ games[last.g].rows = 2 /\ games[last.g].cols = 3
    /\ heap[games[last.g].board] = <<TRUE, FALSE, TRUE, FALSE, TRUE, FALSE>>
    /\ CStr(last.buf) = <<"#", ".", "#", LF, ".", "#", ".">>

\* C8: gol_countlive at a position (x, y) of an initialized R x C grid reads
\* the board exactly at the indices of the Moore neighbours of (x, y) that
\* lie inside the grid, all of them in [0, R*C), not at (x, y) itself, and
\* returns GOL_ERR_OK with the number of live cells among them, which is
\* within 0..8, at most 3 at a corner and at most 5 on an edge
C8_CountLiveInBounds ==
    \A g \in Grids :
        (last.op = "count" /\ last.g = g)
        => LET R == games[g].rows
               C == games[g].cols
               x == last.x
               y == last.y
               nb == InBounds(R, C, x, y)
               onX == x = 0 \/ x = C - 1
               onY == y = 0 \/ y = R - 1
           IN  /\ last.ret = GOL_ERR_OK
               /\ last.reads = {p[2] * C + p[1] : p \in nb}
               /\ last.reads \subseteq 0..(R * C - 1)
               /\ (y * C + x) \notin last.reads
               /\ last.count =
                      Cardinality({p \in nb :
                                      heap[games[g].board][p[2] * C + p[1] + 1]})
               /\ 0 <= last.count /\ last.count <= 8
               /\ (onX /\ onY) => last.count <= 3
               /\ (onX \/ onY) => last.count <= 5

\* the corner (0, 0) of a 3 x 3 grid with its three neighbours alive
C8_Witness ==
    /\ last.op = "count" /\ last.x = 0 /\ last.y = 0
    /\ games[last.g].rows = 3 /\ games[last.g].cols = 3
    /\ last.count = 3
    /\ last.reads = {1, 3, 4}

\* C9: once an engine call of the driver has returned an error the driver
\* is at its exit: it makes no further call
C9_EngineErrorIsFatal ==
    (last.op \in {"init", "populate", "render", "tick"} /\ last.ret # GOL_ERR_OK)
    => pc = "exit_failure"

\* C10: gol_tick on an initialized grid that returns GOL_ERR_NOMEM leaves
\* rows, cols, the board pointer and every cell as they were, so that the
\* same call with memory available gives what it would have given
C10_TickNoMemKeepsGrid ==
    [][\A g \in Grids :
          (/\ last'.op = "tick" /\ last'.g = g /\ last'.ret = GOL_ERR_NOMEM
           /\ Initialized(g))
          => /\ games'[g] = games[g]
             /\ Initialized(g)'
             /\ heap'[games[g].board] = heap[games[g].board]
             /\ heap' = heap
             /\ \A m \in Addrs \ DOMAIN heap :
                   gol_tick(heap', games'[g], m).heap[games[g].board] =
                       ConwayNext(games[g].rows, games[g].cols,
                                  heap[games[g].board])]_vars

\* a tick of an initialized grid with a live cell that failed for memory
C10_Witness ==
    /\ last.op = "tick" /\ last.ret = GOL_ERR_NOMEM
    /\ Initialized(last.g)
    /\ \E k \in 1..Len(heap[games[last.g].board]) : heap[games[last.g].board][k]

====
